---------------------------- MODULE Spec2Model ----------------------------
(* Search-job client of sumologic-sdk-go (src/search.go): StartSearch,      *)
(* GetSearchJobStatus and GetSearchResults as operations of one client      *)
(* against a nondeterministic server.  Every operation is one blocking      *)
(* call: the action that models it draws the arguments and the server's     *)
(* answer, computes what the Go code returns and records it in `last`.      *)
EXTENDS Integers, Sequences, FiniteSets, TLC

VARIABLES client, handle, last, calls, sent

(* The server's side and the callers that drive the client: serverJob is   *)
(* the lifecycle state of the submitted job on the server, seen the states *)
(* the latest successful polls returned, pc and jobState the position and  *)
(* the loop variable of the example program, procs the calls goroutines    *)
(* have in flight.                                                         *)
VARIABLES serverJob, seen, pc, jobState, procs

vars ==
    <<client, handle, last, calls, sent, serverJob, seen, pc, jobState, procs>>

(* What the operations of the client cannot touch.                         *)
outside == <<serverJob, seen, pc, jobState, procs>>

(* Bound on the number of operations the caller invokes in one behaviour.  *)
MaxCalls == 2

-----------------------------------------------------------------------------
(* net/http status codes named by the code.                                *)
StatusOK           == 200
StatusAccepted     == 202
StatusBadRequest   == 400
StatusUnauthorized == 401
(* Not named by the code (it takes the default branches); the tests answer *)
(* a poll of an unknown job with it.                                       *)
StatusNotFound     == 404
(* Statuses no case of the code names: 404 and 500 Internal Server Error.  *)
UnnamedStatuses    == {StatusNotFound, 500}

(* The states a search job can be in (const block of search.go, and the    *)
(* keys of SearchJobStates of the earlier revision: the server's names).   *)
NotStarted           == "NOT STARTED"
GatheringResults     == "GATHERING RESULTS"
ForcePaused          == "FORCED PAUSED"
DoneGatheringResults == "DONE GATHERING RESULTS"
Canceled             == "CANCELED"
SearchJobStates ==
    {"NOT STARTED", "GATHERING RESULTS", "FORCE PAUSED",
     "DONE GATHERING RESULTS", "CANCELED"}

-----------------------------------------------------------------------------
(* Go error values.  nil is Nil; every other error is a record holding the *)
(* message format, the values formatted into it (%v), and the underlying   *)
(* cause: "" none, "transport" client.Do, "read" ioutil.ReadAll, "syntax"  *)
(* and "type" json.Unmarshal, "escape" url.Parse.                         *)
GoError(msg, code, message, status, cause) ==
    [msg |-> msg, code |-> code, message |-> message, status |-> status,
     cause |-> cause]

Nil == GoError("<nil>", "", "", 0, "")

(* The underlying error a library call returned.                           *)
Cause(c) == GoError(c, "", "", 0, c)

(* Package-level sentinel errors; their declarations are in the client     *)
(* file of the package, the tests and StartSearch compare against them.    *)
ErrClientAuthenticationError ==
    GoError("ErrClientAuthenticationError", "", "", 0, "")
ErrSearchJobNotFound ==
    GoError("ErrSearchJobNotFound", "", "", 0, "")

(* errors.Annotate / errors.Annotatef of github.com/juju/errors: a nil     *)
(* error stays nil ("if other == nil { return nil }"); otherwise a new     *)
(* error with the formatted message that wraps `other` as its cause.       *)
Annotatef(other, msg, code, message, status) ==
    IF other = Nil THEN Nil
    ELSE GoError(msg, code, message, status, other.cause)

Annotate(other, msg) == Annotatef(other, msg, "", "", 0)

-----------------------------------------------------------------------------
(* JSON documents.  A body is malformed text, the literal null, an array,  *)
(* or an object given as the sequence of its members in document order.    *)
(* A member value is a string (str), a number (num), or an array (items).  *)
Member(key, type, str, num, items) ==
    [key |-> key, type |-> type, str |-> str, num |-> num, items |-> items]
Str(key, s)   == Member(key, "string", s, 0, <<>>)
Num(key, n)   == Member(key, "number", "", n, <<>>)
Arr(key, its) == Member(key, "array", "", 0, its)

Malformed == [kind |-> "malformed", members |-> <<>>]
JsonNull  == [kind |-> "null", members |-> <<>>]
JsonArray == [kind |-> "array", members |-> <<>>]
Obj(ms)   == [kind |-> "object", members |-> ms]

(* encoding/json matches object keys to struct fields case-insensitively.  *)
FoldKey(k) ==
    CASE k = "ID"    -> "id"
      [] k = "State" -> "state"
      [] k = "STATE" -> "state"
      [] OTHER       -> k

(* One string field of a struct: members are applied in document order, a  *)
(* later duplicate overwrites an earlier one, a value of another JSON type *)
(* leaves the field alone and records an UnmarshalTypeError.               *)
RECURSIVE DecodeString(_, _, _)
DecodeString(ms, name, acc) ==
    IF ms = <<>> THEN acc
    ELSE LET m == Head(ms) IN
         IF FoldKey(m.key) # name THEN DecodeString(Tail(ms), name, acc)
         ELSE IF m.type = "string"
              THEN DecodeString(Tail(ms), name, [acc EXCEPT !.val = m.str])
              ELSE DecodeString(Tail(ms), name, [acc EXCEPT !.err = "type"])

(* One int / uint field; a negative number does not fit a uint.            *)
RECURSIVE DecodeNumber(_, _, _, _)
DecodeNumber(ms, name, unsigned, acc) ==
    IF ms = <<>> THEN acc
    ELSE LET m == Head(ms) IN
         IF FoldKey(m.key) # name
         THEN DecodeNumber(Tail(ms), name, unsigned, acc)
         ELSE IF m.type = "number" /\ (~unsigned \/ m.num >= 0)
              THEN DecodeNumber(Tail(ms), name, unsigned,
                                [acc EXCEPT !.val = m.num])
              ELSE DecodeNumber(Tail(ms), name, unsigned,
                                [acc EXCEPT !.err = "type"])

FirstErr(errs) ==
    IF \E i \in 1..Len(errs) : errs[i] # ""
    THEN errs[CHOOSE i \in 1..Len(errs) :
                 errs[i] # "" /\ \A j \in 1..(i-1) : errs[j] = ""]
    ELSE ""

(* A decoder whose error is dropped (err assigned to _).                   *)
UnmarshalErrDropped(body, memberErr) == Nil

(* The error json.Unmarshal returns for a body, given the error its        *)
(* members produced.                                                       *)
UnmarshalErr(body, memberErr) ==
    CASE body.kind = "malformed" -> Cause("syntax")
      [] body.kind = "array"     -> Cause("type")
      [] body.kind = "null"      -> Nil
      [] OTHER -> IF memberErr = "" THEN Nil ELSE Cause(memberErr)

-----------------------------------------------------------------------------
(* type SearchJob; isNil marks the nil *SearchJob.                         *)
SearchJob(isNil, status, id, code, message) ==
    [isNil |-> isNil, Status |-> status, ID |-> id, Code |-> code,
     Message |-> message]
NilSearchJob  == SearchJob(TRUE, 0, "", "", "")

(* json.Unmarshal(responseBody, &sj) for sj a SearchJob value.             *)
UnmarshalSearchJob(body) ==
    LET ms  == body.members
        st  == DecodeNumber(ms, "status", FALSE, [val |-> 0, err |-> ""])
        id  == DecodeString(ms, "id", [val |-> "", err |-> ""])
        cd  == DecodeString(ms, "code", [val |-> "", err |-> ""])
        msg == DecodeString(ms, "message", [val |-> "", err |-> ""])
    IN [err |-> UnmarshalErr(body,
                    FirstErr(<<st.err, id.err, cd.err, msg.err>>)),
        val |-> SearchJob(FALSE, st.val, id.val, cd.val, msg.val)]

(* json.Unmarshal(responseBody, &sj) for sj a *SearchJob: the literal null *)
(* sets the pointer to nil.                                                *)
UnmarshalSearchJobPtr(body) ==
    IF body.kind = "null" THEN [err |-> Nil, val |-> NilSearchJob]
    ELSE UnmarshalSearchJob(body)

-----------------------------------------------------------------------------
(* Cookies.  A Set-Cookie header line of a response is a name and a value; *)
(* a line without a name is malformed.  A cookie is the same record.       *)
SetCookie(name, value) == [name |-> name, value |-> value]

(* A StartSearch that returns no cookies with the job.                     *)
NoCookies(lines) == <<>>

(* resp.Cookies(): the Set-Cookie lines parsed in header order, a line     *)
(* that does not parse is skipped.                                         *)
RECURSIVE Cookies(_)
Cookies(lines) ==
    IF lines = <<>> THEN <<>>
    ELSE IF Head(lines).name = "" THEN Cookies(Tail(lines))
         ELSE <<Head(lines)>> \o Cookies(Tail(lines))

(* A loop that adds the first cookie only.                                 *)
AddFirstCookie(header, cookies) ==
    IF cookies = <<>> THEN header
    ELSE Append(header, <<Head(cookies).name, Head(cookies).value>>)

(* for _, v := range cookies { req.AddCookie(v) }: each cookie is appended *)
(* to the request's Cookie header as name=value.                           *)
RECURSIVE AddCookies(_, _)
AddCookies(header, cookies) ==
    IF cookies = <<>> THEN header
    ELSE AddCookies(Append(header, <<Head(cookies).name, Head(cookies).value>>),
                    Tail(cookies))

-----------------------------------------------------------------------------
(* URLs.  A path is the sequence of its segments; a path that ends in "/"  *)
(* has a last segment "".                                                  *)

(* url.Parse of a relative reference "search/jobs/<id>...": it fails on an *)
(* ID with an invalid percent-escape.                                      *)
BadEscapeID == "%zz"
ParseOK(id) == id # BadEscapeID

(* An ID that holds a "?": url.Parse ends the path of a reference at the   *)
(* first "?" and takes what follows, to the end of the reference, as the   *)
(* raw query.                                                              *)
QueryID == "job1?limit=0"

(* url.Parse(fmt.Sprintf("search/jobs/%s" + after, id)) for an ID that     *)
(* parses, `after` being "" or "/messages": the path segments of the       *)
(* reference and the parameters of its raw query (key, unescaped value).   *)
ParseRef(id, after) ==
    IF id = QueryID
    THEN [path |-> <<"search", "jobs", "job1">>,
          query |-> << <<"limit", "0" \o after>> >>]
    ELSE [path |-> <<"search", "jobs", id>>
                     \o (IF after = "" THEN <<>> ELSE <<"messages">>),
          query |-> <<>>]

(* c.EndpointURL.ResolveReference(relativeURL) for a relative path (RFC    *)
(* 3986 5.2.3): the reference replaces the base path's last segment.       *)
ResolveReference(base, rel) ==
    [host |-> base.host,
     path |-> IF base.path = <<>> THEN rel
              ELSE SubSeq(base.path, 1, Len(base.path) - 1) \o rel]

(* A conversion that clamps a negative number to zero.                     *)
ItoaClamped(n) == ToString(IF n < 0 THEN 0 ELSE n)

(* strconv.Itoa.                                                           *)
Itoa(n) == ToString(n)

(* An *http.Request as the code builds it.                                 *)
Request(method, url, query, header, cookies, body) ==
    [method |-> method, host |-> url.host, path |-> url.path,
     query |-> query, header |-> header, cookies |-> cookies, body |-> body]

NoRequest == Request("", [host |-> "", path |-> <<>>], <<>>, <<>>, <<>>, <<>>)

(* The two req.Header.Add calls every operation makes.                     *)
Header(c) ==
    << <<"Content-Type", "application/json">>,
       <<"Authorization", "Basic " \o c.AuthToken>> >>

(* json.Marshal(ssr): the struct's fields under their json names, in       *)
(* declaration order.  It cannot fail for a struct of strings.             *)
Marshal(ssr) ==
    << <<"query", ssr.Query>>, <<"from", ssr.From>>, <<"to", ssr.To>>,
       <<"timeZone", ssr.TimeZone>> >>

(* What the server (or the transport) answers to one request.  transport   *)
(* FALSE: client.Do returned an error.  readOK FALSE: reading the body     *)
(* failed part-way.                                                        *)
Response(status, setCookie, body, readOK) ==
    [transport |-> TRUE, status |-> status, setCookie |-> setCookie,
     body |-> body, readOK |-> readOK]
TransportFailure ==
    [transport |-> FALSE, status |-> 0, setCookie |-> <<>>,
     body |-> Malformed, readOK |-> FALSE]

(* ioutil.ReadAll(resp.Body): what was read before a failure is a          *)
(* truncated document.                                                     *)
ReadAll(resp) == IF resp.readOK THEN resp.body ELSE Malformed

-----------------------------------------------------------------------------
(* type SearchJobStatusResponse (State and MessageCount of it).            *)
JobStatus(isNil, state, messageCount) ==
    [isNil |-> isNil, State |-> state, MessageCount |-> messageCount]
NilJobStatus == JobStatus(TRUE, "", 0)

(* type SearchJobResult.                                                   *)
ResultPage(isNil, fields, messages) ==
    [isNil |-> isNil, Fields |-> fields, Messages |-> messages]
NilResultPage == ResultPage(TRUE, <<>>, <<>>)

(* What one call returns, and the request it sent.  panicked: the call     *)
(* ended in a nil-pointer panic instead of returning.                      *)
Outcome(didSend, req, job, cookies, status, page, err, panicked) ==
    [sent |-> didSend, req |-> req, job |-> job, cookies |-> cookies,
     status |-> status, page |-> page, err |-> err, panicked |-> panicked]

(* Client.StartSearch, case http.StatusAccepted.                           *)
StartSearchAccepted(resp, responseBody) ==
    LET u == UnmarshalSearchJobPtr(responseBody) IN
    IF u.err # Nil
    THEN [job |-> NilSearchJob, cookies |-> <<>>,
          err |-> Annotate(u.err, "failed to parse start search response")]
    ELSE [job |-> u.val, cookies |-> Cookies(resp.setCookie), err |-> Nil]

(* A StartSearch that wraps the sentinel as the other cases wrap err.      *)
StartSearchUnauthorizedAnnotated ==
    [job |-> NilSearchJob, cookies |-> <<>>,
     err |-> Annotate(Nil, "StartSearch unauthorized")]

(* Client.StartSearch, case http.StatusUnauthorized.                       *)
StartSearchUnauthorized ==
    [job |-> NilSearchJob, cookies |-> <<>>,
     err |-> ErrClientAuthenticationError]

(* Client.StartSearch, case http.StatusBadRequest.                         *)
StartSearchBadRequest(responseBody) ==
    LET u == UnmarshalSearchJob(responseBody) IN
    IF u.err # Nil
    THEN [job |-> NilSearchJob, cookies |-> <<>>,
          err |-> Annotate(u.err, "failed to parse bad request response")]
    ELSE \* err is the nil error json.Unmarshal returned
         [job |-> NilSearchJob, cookies |-> <<>>,
          err |-> Annotatef(u.err, "Start SearchJob BadRequest, %v, %v",
                            u.val.Code, u.val.Message, 0)]

(* Client.StartSearch, default case of the switch; err is the nil error    *)
(* ioutil.ReadAll returned.                                                *)
StartSearchDefault(resp) ==
    [job |-> NilSearchJob, cookies |-> <<>>,
     err |-> Annotatef(Nil, "unexepected http status code %v", "", "",
                       resp.status)]

(* Client.StartSearch: the job, the cookies and the error it returns for   *)
(* one answer of the server.                                               *)
StartSearchReturn(resp) ==
    LET responseBody == ReadAll(resp) IN
    IF ~resp.transport
    THEN [job |-> NilSearchJob, cookies |-> <<>>,
          err |-> Annotate(Cause("transport"), "StartSearch request failed")]
    ELSE IF ~resp.readOK
    THEN [job |-> NilSearchJob, cookies |-> <<>>,
          err |-> Annotate(Cause("read"), "failed to read resp.Body")]
    ELSE CASE resp.status = StatusAccepted ->
                StartSearchAccepted(resp, responseBody)
           [] resp.status = StatusUnauthorized -> StartSearchUnauthorized
           [] resp.status = StatusBadRequest ->
                StartSearchBadRequest(responseBody)
           [] OTHER -> StartSearchDefault(resp)

StartSearchRequest(c, ssr) ==
    Request("POST",
            ResolveReference(c.EndpointURL, <<"search", "jobs">>),
            <<>>, Header(c), <<>>, Marshal(ssr))

StartSearch(c, ssr, resp) ==
    LET r == StartSearchReturn(resp) IN
    Outcome(TRUE, StartSearchRequest(c, ssr), r.job, r.cookies,
            NilJobStatus, NilResultPage, r.err, FALSE)

-----------------------------------------------------------------------------
(* A decoder that keeps a state only when it is one of SearchJobStates.    *)
UnmarshalJobStatusKnownOnly(body) ==
    LET ms == body.members
        st == DecodeString(ms, "state", [val |-> "", err |-> ""])
        mc == DecodeNumber(ms, "messageCount", TRUE, [val |-> 0, err |-> ""])
    IN IF body.kind = "null" THEN [err |-> Nil, val |-> NilJobStatus]
       ELSE [err |-> UnmarshalErr(body, FirstErr(<<st.err, mc.err>>)),
             val |-> JobStatus(FALSE,
                        IF st.val \in SearchJobStates THEN st.val ELSE "",
                        mc.val)]

(* A status struct kept between calls: the one the previous poll filled.   *)
ReusedJobStatus ==
    IF last.op = "status" /\ ~last.out.status.isNil
    THEN last.out.status
    ELSE JobStatus(FALSE, "", 0)

(* var jobStatus = new(SearchJobStatusResponse): a zero struct per call.   *)
NewJobStatus == JobStatus(FALSE, "", 0)

(* json.Unmarshal(responseBody, &jobStatus) for jobStatus a pointer to a   *)
(* SearchJobStatusResponse: the literal null sets the pointer to nil.      *)
UnmarshalJobStatus(body) ==
    LET ms == body.members
        st == DecodeString(ms, "state",
                           [val |-> NewJobStatus.State, err |-> ""])
        mc == DecodeNumber(ms, "messageCount", TRUE,
                           [val |-> NewJobStatus.MessageCount, err |-> ""])
    IN IF body.kind = "null" THEN [err |-> Nil, val |-> NilJobStatus]
       ELSE [err |-> UnmarshalErr(body, FirstErr(<<st.err, mc.err>>)),
             val |-> JobStatus(FALSE, st.val, mc.val)]

(* Client.GetSearchJobStatus: the status and the error it returns for one  *)
(* answer of the server.                                                   *)
GetSearchJobStatusReturn(resp) ==
    LET responseBody == ReadAll(resp) IN
    IF ~resp.transport
    THEN [status |-> NilJobStatus,
          err |-> Annotate(Cause("transport"),
                           "GetSearchJobStatus api request failed")]
    ELSE CASE resp.status = StatusOK ->
                LET u == UnmarshalJobStatus(responseBody) IN
                IF u.err # Nil
                THEN [status |-> NilJobStatus,
                      err |-> Annotate(u.err,
                                "GetSearchJobStatus failed to parse response")]
                ELSE [status |-> u.val, err |-> Nil]
           [] OTHER ->
                \* err is the nil error client.Do returned
                [status |-> NilJobStatus,
                 err |-> Annotatef(Nil,
                           "GetSearchJobStatus response status not OK : %v",
                           "", "", resp.status)]

(* The query of the reference is the query of the resolved URL.            *)
GetSearchJobStatusRequest(c, searchJobID, cookies) ==
    LET relativeURL == ParseRef(searchJobID, "") IN
    Request("GET",
            ResolveReference(c.EndpointURL, relativeURL.path),
            relativeURL.query, Header(c), AddCookies(<<>>, cookies), <<>>)

(* The error of url.Parse is dropped: for an ID that does not parse the    *)
(* relative URL is nil and ResolveReference dereferences it.               *)
GetSearchJobStatus(c, searchJobID, cookies, resp) ==
    IF ~ParseOK(searchJobID)
    THEN Outcome(FALSE, NoRequest, NilSearchJob, <<>>, NilJobStatus,
                 NilResultPage, Nil, TRUE)
    ELSE LET r == GetSearchJobStatusReturn(resp) IN
         Outcome(TRUE, GetSearchJobStatusRequest(c, searchJobID, cookies),
                 NilSearchJob, <<>>, r.status, NilResultPage, r.err, FALSE)

-----------------------------------------------------------------------------
(* A JSON array member of a results body: its elements in order.  An       *)
(* element carries the keys of a field descriptor (name, fieldType,        *)
(* keyField) and of a message (map).                                       *)
Item(name, fieldType, keyField, map) ==
    [name |-> name, fieldType |-> fieldType, keyField |-> keyField,
     map |-> map]

RECURSIVE DecodeArray(_, _, _)
DecodeArray(ms, name, acc) ==
    IF ms = <<>> THEN acc
    ELSE LET m == Head(ms) IN
         IF FoldKey(m.key) # name THEN DecodeArray(Tail(ms), name, acc)
         ELSE IF m.type = "array"
              THEN DecodeArray(Tail(ms), name, [acc EXCEPT !.val = m.items])
              ELSE DecodeArray(Tail(ms), name, [acc EXCEPT !.err = "type"])

(* A field descriptor that loses the key-field flag.                       *)
ResultFieldNoKey(it) ==
    [Name |-> it.name, FieldType |-> it.fieldType, KeyField |-> FALSE]

(* type SearchJobResultField and type SearchJobResultMessage.              *)
ResultField(it) ==
    [Name |-> it.name, FieldType |-> it.fieldType, KeyField |-> it.keyField]
ResultMessage(it) == [Map |-> it.map]

(* json.Unmarshal(responseBody, &searchResult).                            *)
UnmarshalSearchResult(body) ==
    LET ms == body.members
        fs == DecodeArray(ms, "fields", [val |-> <<>>, err |-> ""])
        mg == DecodeArray(ms, "messages", [val |-> <<>>, err |-> ""])
    IN IF body.kind = "null" THEN [err |-> Nil, val |-> NilResultPage]
       ELSE [err |-> UnmarshalErr(body, FirstErr(<<fs.err, mg.err>>)),
             val |-> ResultPage(FALSE,
                        [i \in 1..Len(fs.val) |-> ResultField(fs.val[i])],
                        [i \in 1..Len(mg.val) |-> ResultMessage(mg.val[i])])]

(* Client.GetSearchResults: the page and the error it returns for one      *)
(* answer of the server.                                                   *)
GetSearchResultsReturn(resp) ==
    LET responseBody == ReadAll(resp) IN
    IF ~resp.transport
    THEN [page |-> NilResultPage,
          err |-> Annotate(Cause("transport"),
                "GetSearchResults request to get search job messages failed")]
    ELSE CASE resp.status = StatusOK ->
                LET u == UnmarshalSearchResult(responseBody) IN
                IF u.err # Nil
                THEN [page |-> NilResultPage,
                      err |-> Annotate(u.err,
                        "GetSearchResults failed to parse successful response")]
                ELSE [page |-> u.val, err |-> Nil]
           [] OTHER ->
                \* err is the nil error client.Do returned
                [page |-> NilResultPage,
                 err |-> Annotatef(Nil, "Status not OK : %v",
                                   "", "", resp.status)]

(* q := req.URL.Query() holds the parameters of the reference (none, or    *)
(* one named limit); q.Add appends to the values of a key, and q.Encode()  *)
(* writes the parameters sorted by key, the values of a key in order.      *)
GetSearchResultsRequest(c, sjrr, cookies) ==
    LET relativeURL == ParseRef(sjrr.ID, "/messages") IN
    Request("GET",
            ResolveReference(c.EndpointURL, relativeURL.path),
            relativeURL.query
              \o << <<"limit", Itoa(sjrr.Limit)>>,
                    <<"offset", Itoa(sjrr.Offset)>> >>,
            Header(c), AddCookies(<<>>, cookies), <<>>)

(* A fetch that refuses a job whose last polled state is not done.         *)
GetSearchResultsGated(c, sjrr, cookies, resp) ==
    IF seen = <<>> \/ seen[Len(seen)] # DoneGatheringResults
    THEN Outcome(FALSE, NoRequest, NilSearchJob, <<>>, NilJobStatus,
                 NilResultPage, GoError("job not done", sjrr.ID, "", 0, ""),
                 FALSE)
    ELSE LET r == GetSearchResultsReturn(resp) IN
         Outcome(TRUE, GetSearchResultsRequest(c, sjrr, cookies),
                 NilSearchJob, <<>>, NilJobStatus, r.page, r.err, FALSE)

GetSearchResults(c, sjrr, cookies, resp) ==
    IF ~ParseOK(sjrr.ID)
    THEN Outcome(FALSE, NoRequest, NilSearchJob, <<>>, NilJobStatus,
                 NilResultPage,
                 Annotatef(Cause("escape"),
                           "failed to create relativeURL from ID : %v",
                           sjrr.ID, "", 0),
                 FALSE)
    ELSE LET r == GetSearchResultsReturn(resp) IN
         Outcome(TRUE, GetSearchResultsRequest(c, sjrr, cookies),
                 NilSearchJob, <<>>, NilJobStatus, r.page, r.err, FALSE)

-----------------------------------------------------------------------------
(* The inputs the model draws: client configurations, requests of the      *)
(* caller, answers of the server.                                          *)
Clients ==
    { [AuthToken |-> "YWNjZXNzOmtleQ==",
       EndpointURL |-> [host |-> "127.0.0.1", path |-> <<>>]],
      [AuthToken |-> "b3RoZXI6a2V5",
       EndpointURL |-> [host |-> "api.sumologic.com",
                        path |-> <<"api", "v1", "">>]] }

SearchRequests ==
    { [Query |-> "_sourceCategory=test/sumo", From |-> "2018-01-01T00:00:00Z",
       To |-> "2018-01-01T00:02:00Z", TimeZone |-> "PST"],
      [Query |-> "", From |-> "yesterday", To |-> "", TimeZone |-> "PST"] }

CookieA == SetCookie("AWSELB", "a1")
CookieB == SetCookie("JSESSIONID", "b2")
BadLine == SetCookie("", "x")

SetCookieLines == { <<>>, <<CookieB>>, <<CookieA, BadLine, CookieB>> }

SubmitStatuses ==
    {StatusAccepted, StatusUnauthorized, StatusBadRequest} \cup UnnamedStatuses

AcceptedBody ==
    Obj(<<Num("status", 202), Str("id", "job1"),
          Str("code", "searchjob.valid"), Str("message", "Search Running")>>)

SubmitBodies ==
    { Malformed, JsonNull, Obj(<<>>), AcceptedBody,
      Obj(<<Str("ID", "job2"), Str("extra", "x")>>),
      Obj(<<Num("status", 400), Str("code", "X"), Str("message", "Y")>>),
      Obj(<<Num("id", 7)>>) }

SubmitAnswers ==
    { Response(st, <<CookieB>>, b, TRUE) :
        st \in SubmitStatuses, b \in SubmitBodies }
    \cup { Response(st, sc, AcceptedBody, TRUE) :
             st \in {StatusAccepted, StatusUnauthorized, StatusBadRequest},
             sc \in SetCookieLines }
    \cup { Response(st, <<CookieB>>, AcceptedBody, FALSE) :
             st \in {StatusAccepted, 500} }
    \cup { TransportFailure }

PollStatuses == {StatusOK, StatusUnauthorized} \cup UnnamedStatuses

StateStrings == SearchJobStates \cup {ForcePaused, "PAUSED BY ADMIN"}

StatusBodies ==
    { Malformed, JsonNull, JsonArray, Obj(<<>>),
      Obj(<<Str("State", "CANCELED"), Num("messageCount", 3),
            Str("extra", "x")>>),
      Obj(<<Str("state", "NOT STARTED"), Str("state", "GATHERING RESULTS")>>),
      Obj(<<Num("state", 1)>>),
      Obj(<<Str("state", "GATHERING RESULTS"), Num("messageCount", -1)>>) }
    \cup { Obj(<<Str("state", s)>>) : s \in StateStrings }

StatusAnswers ==
    { Response(StatusOK, <<>>, b, TRUE) : b \in StatusBodies }
    \cup { Response(st, <<>>, b, TRUE) :
             st \in PollStatuses,
             b \in {Malformed, Obj(<<Str("state", "CANCELED")>>)} }
    \cup { Response(st, <<>>, Obj(<<Str("state", "CANCELED")>>), FALSE) :
             st \in {StatusOK, 500} }
    \cup { TransportFailure }

Field0 == Item("_messageid", "long", FALSE, "")
Field1 == Item("_raw", "string", FALSE, "")
Field2 == Item("_sourcehost", "string", TRUE, "")
Message0 == Item("", "", FALSE, "test.host0")
Message1 == Item("", "", FALSE, "test.host1")

ResultsBodies ==
    { Malformed, JsonNull, Obj(<<>>),
      Obj(<<Arr("fields", <<Field0, Field1>>),
            Arr("messages", <<Message0, Message1>>)>>),
      Obj(<<Arr("fields", <<Field2, Field1>>), Arr("messages", <<>>)>>),
      Obj(<<Str("messages", "none")>>) }

ResultsAnswers ==
    { Response(StatusOK, <<>>, b, TRUE) : b \in ResultsBodies }
    \cup { Response(st, <<>>, b, TRUE) :
             st \in PollStatuses, b \in {Malformed, Obj(<<>>)} }
    \cup { Response(StatusOK, <<>>, Obj(<<>>), FALSE), TransportFailure }

(* (offset, limit) pairs a caller asks for.                                *)
Pages == { <<0, 2>>, <<2, 0>>, <<-1, -1>>, <<1000000, 10001>> }

-----------------------------------------------------------------------------
(* What the caller holds after a StartSearch that returned a job: the      *)
(* job's ID and the cookies returned with it.                              *)
NoHandle == [held |-> FALSE, id |-> "", cookies |-> <<>>]

(* The (ID, cookies) a caller passes to a status or results call: those of *)
(* the handle it holds, or any others (the API takes them as arguments).   *)
CallerArgs ==
    (IF handle.held THEN {[id |-> handle.id, cookies |-> handle.cookies]}
     ELSE {})
    \cup { [id |-> "expired", cookies |-> <<CookieA>>],
           [id |-> BadEscapeID, cookies |-> <<>>] }

NoSearchRequest == [Query |-> "", From |-> "", To |-> "", TimeZone |-> ""]

(* The record of the last call: the operation, its arguments, the answer   *)
(* it got and what it returned.                                            *)
Call(op, ssr, id, cookies, offset, limit, resp, out) ==
    [op |-> op, ssr |-> ssr, id |-> id, cookies |-> cookies,
     offset |-> offset, limit |-> limit, resp |-> resp, out |-> out]

NoCall ==
    Call("none", NoSearchRequest, "", <<>>, 0, 0, TransportFailure,
         Outcome(FALSE, NoRequest, NilSearchJob, <<>>, NilJobStatus,
                 NilResultPage, Nil, FALSE))

(* No goroutine has a call in flight.                                      *)
IdleProc ==
    [pc |-> "idle", op |-> "none", id |-> "", cookies |-> <<>>, offset |-> 0,
     limit |-> 0, req |-> NoRequest, resp |-> TransportFailure,
     out |-> NoCall.out]

(* Goroutines that call the client at the same time.                       *)
MaxProcs == 2
Procs == 1..MaxProcs

Init ==
    /\ client \in Clients
    /\ handle = NoHandle
    /\ last = NoCall
    /\ calls = 0
    /\ sent = 0
    /\ serverJob = "none"
    /\ seen = <<>>
    /\ pc = "start"
    /\ jobState = ""
    /\ procs = [p \in Procs |-> IdleProc]

(* A call that sends its request again after a failure.                    *)
CountWithRetry(out) ==
    IF ~out.sent THEN 0 ELSE IF out.err # Nil THEN 2 ELSE 1

(* The requests one call sends: client.Do is called once, in no loop.      *)
Count(out) == IF out.sent THEN 1 ELSE 0

(* The caller submits a search and keeps the job and cookies it got.       *)
Submit ==
    /\ calls < MaxCalls
    /\ \E ssr \in SearchRequests, resp \in SubmitAnswers :
         LET out == StartSearch(client, ssr, resp) IN
         /\ last' = Call("submit", ssr, "", <<>>, 0, 0, resp, out)
         /\ handle' = IF out.err = Nil /\ ~out.job.isNil
                      THEN [held |-> TRUE, id |-> out.job.ID,
                            cookies |-> out.cookies]
                      ELSE handle
         /\ sent' = sent + Count(out)
    /\ calls' = calls + 1
    /\ UNCHANGED <<client, outside>>

(* A poll that replaces the cookies the caller holds by those of the       *)
(* status response.                                                        *)
PollRefreshingCookies ==
    /\ calls < MaxCalls
    /\ \E a \in CallerArgs, resp \in StatusAnswers :
         LET out == GetSearchJobStatus(client, a.id, a.cookies, resp) IN
         /\ last' = Call("status", NoSearchRequest, a.id, a.cookies, 0, 0,
                         resp, out)
         /\ sent' = sent + Count(out)
         /\ handle' = [handle EXCEPT !.cookies = Cookies(resp.setCookie)]
    /\ calls' = calls + 1
    /\ UNCHANGED <<client, outside>>

(* The caller polls the status of a job.                                   *)
Poll ==
    /\ calls < MaxCalls
    /\ \E a \in CallerArgs, resp \in StatusAnswers :
         LET out == GetSearchJobStatus(client, a.id, a.cookies, resp) IN
         /\ last' = Call("status", NoSearchRequest, a.id, a.cookies, 0, 0,
                         resp, out)
         /\ sent' = sent + Count(out)
    /\ calls' = calls + 1
    /\ UNCHANGED <<client, handle, outside>>

(* The caller fetches one page of results of a job.                        *)
Fetch ==
    /\ calls < MaxCalls
    /\ \E a \in CallerArgs, pg \in Pages, resp \in ResultsAnswers :
         LET sjrr == [ID |-> a.id, Offset |-> pg[1], Limit |-> pg[2]]
             out  == GetSearchResults(client, sjrr, a.cookies, resp)
         IN /\ last' = Call("results", NoSearchRequest, a.id, a.cookies,
                            pg[1], pg[2], resp, out)
            /\ sent' = sent + Count(out)
    /\ calls' = calls + 1
    /\ UNCHANGED <<client, handle, outside>>

Next == Submit \/ Poll \/ Fetch

Spec == Init /\ [][Next]_vars

-----------------------------------------------------------------------------
(* Vocabulary of the properties.                                           *)

(* The last call was `op` and the server answered it with a response whose *)
(* body was read in full.                                                  *)
Answered(op) ==
    /\ last.op = op
    /\ last.out.sent
    /\ last.resp.transport
    /\ last.resp.readOK

(* The last call was `op` and no response arrived.                         *)
TransportFailed(op) ==
    /\ last.op = op
    /\ last.out.sent
    /\ ~last.resp.transport

(* The value (job, status or page) the last call returned is nil.          *)
ResultIsNil ==
    CASE last.op = "submit"  -> last.out.job.isNil
      [] last.op = "status"  -> last.out.status.isNil
      [] last.op = "results" -> last.out.page.isNil
      [] OTHER               -> TRUE

(* The positions of the members of an object that set the field `name`,    *)
(* and the string the last of them holds.                                  *)
Keyed(body, name) ==
    {i \in 1..Len(body.members) : FoldKey(body.members[i].key) = name}
Max(S) == CHOOSE i \in S : \A j \in S : j <= i
SentString(body, name) == body.members[Max(Keyed(body, name))].str

(* An object whose members all have the JSON type of the field they set.   *)
WellTyped(body, strings, uints, ints) ==
    /\ body.kind = "object"
    /\ \A i \in 1..Len(body.members) :
         LET m == body.members[i] IN
         /\ FoldKey(m.key) \in strings => m.type = "string"
         /\ FoldKey(m.key) \in uints => m.type = "number" /\ m.num >= 0
         /\ FoldKey(m.key) \in ints => m.type = "number"

DecodableJob(body) == WellTyped(body, {"id", "code", "message"}, {}, {"status"})
DecodableStatus(body) == WellTyped(body, {"state"}, {"messageCount"}, {})

(* The well-formed Set-Cookie lines of a response, in header order.        *)
WellFormedLines(resp) == SelectSeq(resp.setCookie, LAMBDA l : l.name # "")

-----------------------------------------------------------------------------
(* The status that means success for an operation.                         *)
SuccessStatus(op) == IF op = "submit" THEN StatusAccepted ELSE StatusOK

(* The last call took a failure path: no response arrived, or the response *)
(* did not have the operation's success status.                            *)
FailurePath ==
    /\ last.op # "none"
    /\ last.out.sent
    /\ (~last.resp.transport \/ last.resp.status # SuccessStatus(last.op))

(* C1: no failure path of StartSearch, GetSearchJobStatus or               *)
(* GetSearchResults ends with a nil result and a nil error: whatever the   *)
(* status of the response, and on a transport failure, the call returns a  *)
(* non-nil error when it returns no value.                                 *)
C1_NoErrorSwallowed ==
    (FailurePath /\ ResultIsNil) => last.out.err # Nil

(* C2: a submission answered 400 with a body {code: X, message: Y} fails   *)
(* with an error whose text holds X and Y, and returns no job and no       *)
(* cookies.                                                                *)
C2_BadRequestCarriesCodeAndMessage ==
    (/\ Answered("submit")
     /\ last.resp.status = StatusBadRequest
     /\ DecodableJob(last.resp.body)
     /\ Keyed(last.resp.body, "code") # {}
     /\ Keyed(last.resp.body, "message") # {})
        => /\ last.out.err # Nil
           /\ last.out.err.code = SentString(last.resp.body, "code")
           /\ last.out.err.message = SentString(last.resp.body, "message")
           /\ last.out.job.isNil
           /\ last.out.cookies = <<>>

(* C3: a status poll answered 404 fails with ErrSearchJobNotFound and      *)
(* returns no status.                                                      *)
C3_NotFoundIsJobNotFound ==
    (Answered("status") /\ last.resp.status = StatusNotFound)
        => /\ last.out.err = ErrSearchJobNotFound
           /\ last.out.status.isNil

C5_UnauthorizedIsAuthenticationError ==
    /\ (Answered("submit") /\ last.resp.status = StatusUnauthorized)
          => /\ last.out.err = ErrClientAuthenticationError
             /\ last.out.job.isNil
             /\ last.out.cookies = <<>>
    /\ last.out.err = ErrClientAuthenticationError
          => (Answered("submit") /\ last.resp.status = StatusUnauthorized)

C5_Witness ==
    /\ Answered("submit")
    /\ last.resp.status = StatusUnauthorized
    /\ last.resp.body = AcceptedBody
    /\ last.out.err = ErrClientAuthenticationError
    /\ ~handle.held

(* C6: a submission answered with a status other than 202, 401 and 400, or *)
(* one whose transport failed, fails with an error that is not the         *)
(* authentication error and that carries the status code when a response   *)
(* arrived, and returns no job.                                            *)
C6_OtherStatusIsRequestFailed ==
    /\ (/\ Answered("submit")
        /\ last.resp.status \notin
              {StatusAccepted, StatusUnauthorized, StatusBadRequest})
          => /\ last.out.err # Nil
             /\ last.out.err # ErrClientAuthenticationError
             /\ last.out.err.status = last.resp.status
             /\ last.out.job.isNil
    /\ TransportFailed("submit")
          => /\ last.out.err # Nil
             /\ last.out.err # ErrClientAuthenticationError
             /\ last.out.job.isNil

(* The Cookie header a request carries when every cookie of `cookies` is   *)
(* attached, in order.                                                     *)
CookieHeader(cookies) ==
    [i \in 1..Len(cookies) |-> <<cookies[i].name, cookies[i].value>>]

(* C7: every status request and every results request that is sent for a   *)
(* job carries the full cookie set the caller passed for that job, and     *)
(* names that job in its path.                                             *)
C7_CookiesAttachedToEveryRequest ==
    (last.op \in {"status", "results"} /\ last.out.sent)
        => /\ last.out.req.cookies = CookieHeader(last.cookies)
           /\ \E i \in 1..Len(last.out.req.path) :
                last.out.req.path[i] = last.id

(* A poll made with the ID and the two cookies captured at submission.     *)
C7_Witness ==
    /\ last.op = "status"
    /\ last.out.sent
    /\ handle.held
    /\ last.id = handle.id
    /\ last.cookies = handle.cookies
    /\ handle.cookies = <<CookieA, CookieB>>
    /\ last.out.req.cookies = << <<"AWSELB", "a1">>, <<"JSESSIONID", "b2">> >>

C9_PollOtherStatusIsRequestFailed ==
    (\/ (Answered("status")
           /\ last.resp.status \notin {StatusOK, StatusNotFound})
     \/ TransportFailed("status"))
        => /\ last.out.err # Nil
           /\ last.out.status.isNil

(* C10: a results request answered with a status other than 200 fails with *)
(* an error that carries that status code and returns no page.             *)
C10_ResultsOtherStatusIsRequestFailed ==
    (Answered("results") /\ last.resp.status # StatusOK)
        => /\ last.out.err # Nil
           /\ last.out.err.status = last.resp.status
           /\ last.out.page.isNil

-----------------------------------------------------------------------------
(* C12: a status poll and a results fetch leave the caller's handle (ID    *)
(* and cookies) and the client as they were, whatever the outcome.         *)
C12_PollAndFetchChangeNothing ==
    [][(last'.op \in {"status", "results"} /\ calls' = calls + 1)
         => (handle' = handle /\ client' = client)]_vars

(* A fetch made with a captured handle, which is still what it was.        *)
C12_Witness ==
    /\ last.op = "results"
    /\ calls = 2
    /\ handle.held
    /\ last.id = handle.id
    /\ last.cookies = handle.cookies
    /\ handle.cookies = <<CookieA, CookieB>>
    /\ last.out.err # Nil

(* The decimal numeral of each offset and limit of Pages.                  *)
Decimal(n) ==
    CASE n = 0       -> "0"
      [] n = 2       -> "2"
      [] n = -1      -> "-1"
      [] n = 10001   -> "10001"
      [] n = 1000000 -> "1000000"

Undecodable(op, body) ==
    \/ body.kind \in {"malformed", "array"}
    \/ /\ body.kind = "object"
       /\ \E i \in 1..Len(body.members) :
            LET m == body.members[i]
                k == FoldKey(m.key)
            IN CASE op = "submit" ->
                      \/ k \in {"id", "code", "message"} /\ m.type # "string"
                      \/ k = "status" /\ m.type # "number"
                 [] op = "status" ->
                      \/ k = "state" /\ m.type # "string"
                      \/ k = "messageCount"
                           /\ (m.type # "number" \/ m.num < 0)
                 [] OTHER ->
                      k \in {"fields", "messages"} /\ m.type # "array"

(* C14: a response with the success status whose body does not decode      *)
(* makes the call fail with an error that wraps the parse error, and       *)
(* return no value.                                                        *)
C14_DecodeFailureIsAnError ==
    (/\ last.op # "none"
     /\ Answered(last.op)
     /\ last.resp.status = SuccessStatus(last.op)
     /\ Undecodable(last.op, last.resp.body))
        => /\ last.out.err # Nil
           /\ last.out.err.cause \in {"syntax", "type"}
           /\ ResultIsNil
           /\ last.out.cookies = <<>>

C14_Witness ==
    /\ Answered("status")
    /\ last.resp.status = StatusOK
    /\ last.resp.body = Obj(<<Num("state", 1)>>)
    /\ last.out.err.cause = "type"
    /\ last.out.status.isNil

(* C15: every call sends at most one request, whatever its outcome: the    *)
(* requests sent never exceed the calls made, and one call adds at most    *)
(* one.                                                                    *)
C15_AtMostOneRequestPerCall ==
    /\ sent <= calls
    /\ (calls = 1 /\ last.out.sent) => sent = 1

(* Two calls that both failed, one of them on a transport failure, and two *)
(* requests.                                                               *)
C15_Witness ==
    /\ calls = 2
    /\ sent = 2
    /\ TransportFailed(last.op)
    /\ last.out.err # Nil

(* C18: a results fetch answered 200 with a decodable object returns, with *)
(* a nil error, a page whose messages are the server's messages in the     *)
(* server's order and whose fields are the server's fields, name, type and *)
(* key-field flag.                                                         *)
C18_PageReturnedAsSent ==
    (/\ Answered("results")
     /\ last.resp.status = StatusOK
     /\ last.resp.body.kind = "object"
     /\ ~Undecodable("results", last.resp.body)
     /\ Cardinality(Keyed(last.resp.body, "fields")) = 1
     /\ Cardinality(Keyed(last.resp.body, "messages")) = 1)
        => LET fs == last.resp.body.members[
                         Max(Keyed(last.resp.body, "fields"))].items
               ms == last.resp.body.members[
                         Max(Keyed(last.resp.body, "messages"))].items
               pg == last.out.page
           IN /\ last.out.err = Nil
              /\ ~pg.isNil
              /\ Len(pg.Messages) = Len(ms)
              /\ \A i \in 1..Len(ms) : pg.Messages[i].Map = ms[i].map
              /\ Len(pg.Fields) = Len(fs)
              /\ \A i \in 1..Len(fs) :
                   /\ pg.Fields[i].Name = fs[i].name
                   /\ pg.Fields[i].FieldType = fs[i].fieldType
                   /\ pg.Fields[i].KeyField = fs[i].keyField

(* The test's fetch: offset 0, limit 2, two messages.                      *)
C18_Witness ==
    /\ Answered("results")
    /\ last.offset = 0
    /\ last.limit = 2
    /\ last.out.err = Nil
    /\ last.out.page.Messages = <<[Map |-> "test.host0"], [Map |-> "test.host1"]>>
    /\ Len(last.out.page.Fields) = 2

-----------------------------------------------------------------------------
(* A server that runs the submitted job, and a caller that polls and       *)
(* fetches in any order (the process flow in the header of search.go:      *)
(* request a job, request its status, request the results, "job does not   *)
(* have to be complete").                                                  *)

(* Bound on the calls of one behaviour of that caller.                     *)
MaxJobCalls == 4

(* How many of the latest polled states seen keeps.                        *)
MaxSeen == 2

Remember(states, state) ==
    LET all == Append(states, state) IN
    IF Len(all) <= MaxSeen THEN all
    ELSE SubSeq(all, Len(all) - MaxSeen + 1, Len(all))

(* The server's answers to a submission.                                   *)
JobSubmitAnswers ==
    { Response(StatusAccepted, <<CookieA, BadLine, CookieB>>, AcceptedBody,
               TRUE),
      Response(StatusUnauthorized, <<>>, Malformed, TRUE),
      TransportFailure }

(* The server's answers to a poll of the job: its state, with or without   *)
(* the message count; or a failure.                                        *)
JobStatusAnswers ==
    { Response(StatusOK, <<>>,
               Obj(<<Str("state", serverJob), Num("messageCount", 3)>>), TRUE),
      Response(StatusOK, <<>>, Obj(<<Str("state", serverJob)>>), TRUE),
      Response(StatusNotFound, <<>>, Malformed, TRUE),
      TransportFailure }

(* The server's answers to a results request.                              *)
JobResultsAnswers ==
    { Response(StatusOK, <<>>,
               Obj(<<Arr("fields", <<Field0, Field1>>),
                     Arr("messages", <<Message0, Message1>>)>>), TRUE),
      Response(StatusOK, <<>>, Obj(<<>>), TRUE),
      Response(500, <<>>, Malformed, TRUE) }

(* StartSearch against that server; an accepted job has not started.       *)
DoSubmit(ssr, resp) ==
    LET out == StartSearch(client, ssr, resp) IN
    /\ last' = Call("submit", ssr, "", <<>>, 0, 0, resp, out)
    /\ handle' = IF out.err = Nil /\ ~out.job.isNil
                 THEN [held |-> TRUE, id |-> out.job.ID,
                       cookies |-> out.cookies]
                 ELSE handle
    /\ serverJob' = IF resp.transport /\ resp.status = StatusAccepted
                    THEN "NOT STARTED" ELSE serverJob
    /\ seen' = <<>>
    /\ UNCHANGED client

(* GetSearchJobStatus with the handle's ID and cookies.                    *)
DoPoll(resp) ==
    LET out == GetSearchJobStatus(client, handle.id, handle.cookies, resp) IN
    /\ last' = Call("status", NoSearchRequest, handle.id, handle.cookies, 0, 0,
                    resp, out)
    /\ seen' = IF out.err = Nil /\ ~out.status.isNil
               THEN Remember(seen, out.status.State) ELSE seen
    /\ UNCHANGED <<client, handle, serverJob>>

(* GetSearchResults with the handle's ID and cookies.                      *)
DoFetch(offset, limit, resp) ==
    LET sjrr == [ID |-> handle.id, Offset |-> offset, Limit |-> limit]
        out  == GetSearchResults(client, sjrr, handle.cookies, resp)
    IN /\ last' = Call("results", NoSearchRequest, handle.id, handle.cookies,
                       offset, limit, resp, out)
       /\ UNCHANGED <<client, handle, serverJob, seen>>

JobSubmit ==
    /\ calls < MaxJobCalls
    /\ ~handle.held
    /\ \E ssr \in SearchRequests, resp \in JobSubmitAnswers :
         /\ DoSubmit(ssr, resp)
         /\ sent' = sent + Count(last'.out)
    /\ calls' = calls + 1
    /\ UNCHANGED <<pc, jobState, procs>>

(* The server moves the job to another state; the client assumes no path.  *)
JobAdvance ==
    /\ serverJob # "none"
    /\ serverJob' \in SearchJobStates \ {serverJob}
    /\ UNCHANGED <<client, handle, last, calls, sent, seen, pc, jobState,
                   procs>>

JobPoll ==
    /\ calls < MaxJobCalls
    /\ handle.held
    /\ \E resp \in JobStatusAnswers :
         /\ DoPoll(resp)
         /\ sent' = sent + Count(last'.out)
    /\ calls' = calls + 1
    /\ UNCHANGED <<pc, jobState, procs>>

JobFetch ==
    /\ calls < MaxJobCalls
    /\ handle.held
    /\ \E resp \in JobResultsAnswers :
         /\ DoFetch(0, 2, resp)
         /\ sent' = sent + Count(last'.out)
    /\ calls' = calls + 1
    /\ UNCHANGED <<pc, jobState, procs>>

NextJob == JobSubmit \/ JobAdvance \/ JobPoll \/ JobFetch

SpecJob == Init /\ [][NextJob]_vars

(* C11: the client never holds a results fetch back because of the job's   *)
(* state: whatever the state of the job on the server and whatever the     *)
(* polls returned, if any, a fetch sends its request, and it returns a     *)
(* page with a nil error when the server answers 200 with a decodable      *)
(* page.                                                                   *)
C11_FetchNotGatedByJobState ==
    last.op = "results"
        => /\ last.out.sent
           /\ (/\ last.resp.status = StatusOK
               /\ last.resp.body.kind = "object"
               /\ ~Undecodable("results", last.resp.body))
                 => (last.out.err = Nil /\ ~last.out.page.isNil)

(* A fetch that succeeded for a job that has not started, with no poll     *)
(* before it.                                                              *)
C11_Witness ==
    /\ last.op = "results"
    /\ serverJob = "NOT STARTED"
    /\ seen = <<>>
    /\ last.out.sent
    /\ last.out.err = Nil
    /\ Len(last.out.page.Messages) = 2

(* What a zero struct holds after the members of `body` are decoded into   *)
(* it.                                                                     *)
FreshState(body) ==
    IF Keyed(body, "state") = {} THEN "" ELSE SentString(body, "state")
FreshCount(body) ==
    IF Keyed(body, "messageCount") = {} THEN 0
    ELSE body.members[Max(Keyed(body, "messageCount"))].num

(* C17: the status a poll returns is decided by the response to that poll  *)
(* alone: its fields are those of the response, a field the response       *)
(* leaves out is zero and not what an earlier poll returned, and a state   *)
(* that skips or goes back on the earlier one is returned as sent.         *)
C17_StatusFreshOnEveryPoll ==
    (/\ Answered("status")
     /\ last.resp.status = StatusOK
     /\ DecodableStatus(last.resp.body))
        => /\ last.out.err = Nil
           /\ last.out.status.State = FreshState(last.resp.body)
           /\ last.out.status.MessageCount = FreshCount(last.resp.body)
           /\ seen # <<>>
           /\ seen[Len(seen)] = FreshState(last.resp.body)

(* Two polls: done, then not started; the second without a message count.  *)
C17_Witness ==
    /\ Answered("status")
    /\ seen = <<"DONE GATHERING RESULTS", "NOT STARTED">>
    /\ last.out.status.State = "NOT STARTED"
    /\ last.out.status.MessageCount = 0
    /\ last.resp.body = Obj(<<Str("state", "NOT STARTED")>>)

-----------------------------------------------------------------------------
(* The example program (examples/basic_usage.go): submit, poll until the   *)
(* job is done, fetch one page.  pc is the program's position, jobState    *)
(* its variable of that name.  The counters calls and sent belong to the   *)
(* bounded callers above and are left alone: this loop has no bound.       *)

(* The states after which the job changes no more, as the server names     *)
(* them.                                                                   *)
TerminalStates == {"DONE GATHERING RESULTS", "FORCE PAUSED", "CANCELED"}

(* searchJob.GetStatus(): the status call with the job's ID and cookies.   *)
SearchJobGetStatus(resp) == DoPoll(resp)

(* searchJob.GetSearchResults(offset, limit): the results call with the    *)
(* job's ID and cookies.                                                   *)
SearchJobGetSearchResults(offset, limit, resp) == DoFetch(offset, limit, resp)

(* The server's answers to the program's submission.                       *)
ExampleSubmitAnswers ==
    JobSubmitAnswers
    \cup { Response(StatusBadRequest, <<>>,
                    Obj(<<Num("status", 400), Str("code", "X"),
                          Str("message", "Y")>>), TRUE) }

(* searchJob, err := sumoClient.StartSearch(...); if err != nil, exit 1.   *)
ExStart ==
    /\ pc = "start"
    /\ \E ssr \in SearchRequests, resp \in ExampleSubmitAnswers :
         DoSubmit(ssr, resp)
    /\ pc' = IF last'.out.err # Nil THEN "exit1" ELSE "loop"
    /\ UNCHANGED <<calls, sent, jobState, procs>>

(* The loop condition and the two tests at the top of the loop body.       *)
ExLoop ==
    /\ pc = "loop"
    /\ pc' = IF jobState = DoneGatheringResults THEN "fetch"
             ELSE IF jobState = Canceled THEN "exit0"
             ELSE IF jobState = ForcePaused THEN "exit0"
             ELSE "poll"
    /\ UNCHANGED <<client, handle, last, calls, sent, serverJob, seen,
                   jobState, procs>>

(* getJobStatus, err := searchJob.GetStatus(); exit 1 on an error;         *)
(* jobState = getJobStatus.State, a nil dereference when searchJob or      *)
(* getJobStatus is nil; then sleep and test the loop condition again.      *)
ExPoll ==
    /\ pc = "poll"
    /\ IF ~handle.held
       THEN /\ pc' = "crashed"
            /\ UNCHANGED <<client, handle, last, serverJob, seen, jobState>>
       ELSE \E resp \in JobStatusAnswers :
              /\ SearchJobGetStatus(resp)
              /\ pc' = IF last'.out.err # Nil THEN "exit1"
                       ELSE IF last'.out.status.isNil THEN "crashed"
                       ELSE "loop"
              /\ jobState' = IF last'.out.err = Nil /\ ~last'.out.status.isNil
                             THEN last'.out.status.State ELSE jobState
    /\ UNCHANGED <<calls, sent, procs>>

(* results, err := searchJob.GetSearchResults(0, 2); the error is printed  *)
(* and the messages, if any; main returns.                                 *)
ExFetch ==
    /\ pc = "fetch"
    /\ \E resp \in JobResultsAnswers : SearchJobGetSearchResults(0, 2, resp)
    /\ pc' = "done"
    /\ UNCHANGED <<calls, sent, jobState, procs>>

(* A step of the program.                                                  *)
ExStep == ExStart \/ ExLoop \/ ExPoll \/ ExFetch

NextExample == ExStart \/ ExLoop \/ ExPoll \/ ExFetch \/ JobAdvance

(* The program runs on as long as it has a step to take (the sleep in the  *)
(* loop ends); nothing is assumed of the server.                           *)
SpecExample == Init /\ [][NextExample]_vars /\ WF_vars(ExStep)

(* Every poll so far succeeded: it returned a status and no error.         *)
PollSucceeded ==
    last.op = "status" => (last.out.err = Nil /\ ~last.out.status.isNil)

(* The program is out of its polling loop.                                 *)
LoopEnded == pc \in {"fetch", "done", "exit0", "exit1", "crashed"}

(* C19: the polling loop of the example exits whenever the job reaches a   *)
(* terminal state: if every poll succeeds and from some point on the       *)
(* server reports DONE GATHERING RESULTS, FORCE PAUSED or CANCELED, the    *)
(* program eventually leaves the loop.                                     *)
C19_LoopExitsOnTerminalState ==
    ([]PollSucceeded /\ <>[](serverJob \in TerminalStates)) => <>LoopEnded

(* C20: the example's calls are ordered submit, polls, at most one fetch:  *)
(* no poll follows a poll that returned a terminal state or an error, a    *)
(* results request is sent only after a poll returned DONE GATHERING       *)
(* RESULTS, and none is sent when the loop ended on CANCELED, on the       *)
(* force-paused state or on a poll error.                                  *)
C20_SubmitThenPollsThenOneFetch ==
    /\ \A i \in 1..(Len(seen) - 1) : seen[i] \notin TerminalStates
    /\ (last.op = "status" /\ last.out.err # Nil) => pc = "exit1"
    /\ (last.op = "results" /\ last.out.sent)
         => (/\ seen # <<>>
             /\ seen[Len(seen)] = "DONE GATHERING RESULTS"
             /\ pc = "done")
    /\ pc \in {"exit0", "exit1", "crashed"} => last.op # "results"
    /\ pc \in {"start"} => last.op = "none"

-----------------------------------------------------------------------------
(* Goroutines that poll and fetch at the same time with one job handle.    *)
(* A call is two steps: the goroutine reads its arguments and the client   *)
(* and builds its request; later the answer arrives and the call returns.  *)
(* Steps of different goroutines interleave in any order.                  *)

(* Every goroutine keeps its request in the one slot.                      *)
SharedSlot(p) == 1

(* Where the request of goroutine p is kept between the two steps: req is  *)
(* a local variable of the call.                                           *)
Slot(p) == p

(* The pages the goroutines ask for.                                       *)
ConcPages == { <<0, 2>>, <<2, 0>> }

(* The server's answers to the goroutines' polls and fetches.              *)
ConcStatusAnswers ==
    { Response(StatusOK, <<>>,
               Obj(<<Str("state", serverJob), Num("messageCount", 3)>>), TRUE),
      Response(StatusNotFound, <<>>, Malformed, TRUE) }

ConcResultsAnswers ==
    { Response(StatusOK, <<>>,
               Obj(<<Arr("fields", <<Field0, Field1>>),
                     Arr("messages", <<Message0, Message1>>)>>), TRUE),
      Response(500, <<>>, Malformed, TRUE) }

(* What the call of a goroutine returns when it runs alone with the same   *)
(* arguments and gets the same answer.                                     *)
Alone(pr) ==
    IF pr.op = "status"
    THEN GetSearchJobStatus(client, pr.id, pr.cookies, pr.resp)
    ELSE GetSearchResults(client,
                          [ID |-> pr.id, Offset |-> pr.offset,
                           Limit |-> pr.limit],
                          pr.cookies, pr.resp)

(* One goroutine submits the search before the others start.               *)
ConcSubmit ==
    /\ calls < MaxJobCalls
    /\ ~handle.held
    /\ \E ssr \in SearchRequests, resp \in JobSubmitAnswers :
         /\ DoSubmit(ssr, resp)
         /\ sent' = sent + Count(last'.out)
    /\ calls' = calls + 1
    /\ UNCHANGED <<pc, jobState, procs>>

(* Goroutine p enters GetSearchJobStatus or GetSearchResults with the      *)
(* handle's ID and cookies, and builds the request (up to the line before  *)
(* client.Do).                                                             *)
ConcBegin(p) ==
    /\ handle.held
    /\ procs[p].pc = "idle"
    /\ \E op \in {"status", "results"}, pg \in ConcPages :
         LET offset == IF op = "status" THEN 0 ELSE pg[1]
             limit  == IF op = "status" THEN 0 ELSE pg[2]
             req == IF op = "status"
                    THEN GetSearchJobStatusRequest(client, handle.id,
                                                   handle.cookies)
                    ELSE GetSearchResultsRequest(
                             client,
                             [ID |-> handle.id, Offset |-> offset,
                              Limit |-> limit],
                             handle.cookies)
         IN procs' = [procs EXCEPT ![p].pc = "built", ![p].op = op,
                                   ![p].id = handle.id,
                                   ![p].cookies = handle.cookies,
                                   ![p].offset = offset, ![p].limit = limit,
                                   ![Slot(p)].req = req]
    /\ calls' = calls + 1
    /\ UNCHANGED <<client, handle, last, sent, serverJob, seen, pc, jobState>>

(* client.Do(req) of goroutine p is answered and the call returns.         *)
ConcComplete(p) ==
    /\ procs[p].pc = "built"
    /\ \E resp \in IF procs[p].op = "status" THEN ConcStatusAnswers
                   ELSE ConcResultsAnswers :
         LET req == procs[Slot(p)].req
             out == IF procs[p].op = "status"
                    THEN LET r == GetSearchJobStatusReturn(resp) IN
                         Outcome(TRUE, req, NilSearchJob, <<>>, r.status,
                                 NilResultPage, r.err, FALSE)
                    ELSE LET r == GetSearchResultsReturn(resp) IN
                         Outcome(TRUE, req, NilSearchJob, <<>>, NilJobStatus,
                                 r.page, r.err, FALSE)
         IN procs' = [procs EXCEPT ![p].pc = "done", ![p].resp = resp,
                                   ![p].out = out]
    /\ sent' = sent + 1
    /\ UNCHANGED <<client, handle, last, calls, serverJob, seen, pc, jobState>>

NextConc ==
    \/ ConcSubmit
    \/ JobAdvance
    \/ \E p \in Procs : ConcBegin(p)
    \/ \E p \in Procs : ConcComplete(p)

SpecConc == Init /\ [][NextConc]_vars

(* C16: under every interleaving of the polls and fetches of the           *)
(* goroutines, each finished call returned what it returns when run alone  *)
(* with the same arguments and the same answer of the server, it ran with  *)
(* the ID and cookies of the handle, and the handle is still the job ID    *)
(* and the cookies the submission returned.                                *)
C16_ConcurrentCallsAreIndependent ==
    /\ \A p \in Procs :
         procs[p].pc = "done"
            => /\ procs[p].out = Alone(procs[p])
               /\ procs[p].id = handle.id
               /\ procs[p].cookies = handle.cookies
    /\ handle.held
         => /\ last.op = "submit"
            /\ handle.id = last.out.job.ID
            /\ handle.cookies = last.out.cookies

(* A poll has returned while the fetch of another goroutine, begun before  *)
(* that return, is still in flight.                                        *)
C16_Witness ==
    \E p, q \in Procs :
       /\ procs[p].pc = "done"
       /\ procs[p].op = "status"
       /\ procs[p].out.err = Nil
       /\ procs[p].out.status.State = "GATHERING RESULTS"
       /\ procs[q].pc = "built"
       /\ procs[q].op = "results"
       /\ procs[p].out.req # procs[q].req

-----------------------------------------------------------------------------
(* The requests the three operations build, for every client configuration *)
(* and for IDs of every shape: the caller passes any string as the ID.     *)

(* The IDs a caller passes: one the server issued, an unknown one, one     *)
(* with a "?", one that does not parse.                                    *)
RequestIDs == {"job1", "expired", QueryID, BadEscapeID}

(* The server's answers to a poll made with any of these IDs.              *)
RequestStatusAnswers ==
    { Response(StatusOK, <<>>, Obj(<<Str("state", "CANCELED")>>), TRUE),
      Response(StatusNotFound, <<>>, Malformed, TRUE),
      TransportFailure }

ReqSubmit ==
    /\ calls < MaxCalls
    /\ \E ssr \in SearchRequests, resp \in JobSubmitAnswers :
         LET out == StartSearch(client, ssr, resp) IN
         /\ last' = Call("submit", ssr, "", <<>>, 0, 0, resp, out)
         /\ sent' = sent + Count(out)
    /\ calls' = calls + 1
    /\ UNCHANGED <<client, handle, outside>>

ReqPoll ==
    /\ calls < MaxCalls
    /\ \E id \in RequestIDs, resp \in RequestStatusAnswers :
         LET out == GetSearchJobStatus(client, id, <<CookieA>>, resp) IN
         /\ last' = Call("status", NoSearchRequest, id, <<CookieA>>, 0, 0,
                         resp, out)
         /\ sent' = sent + Count(out)
    /\ calls' = calls + 1
    /\ UNCHANGED <<client, handle, outside>>

ReqFetch ==
    /\ calls < MaxCalls
    /\ \E id \in RequestIDs, pg \in ConcPages, resp \in JobResultsAnswers :
         LET sjrr == [ID |-> id, Offset |-> pg[1], Limit |-> pg[2]]
             out  == GetSearchResults(client, sjrr, <<CookieA>>, resp)
         IN /\ last' = Call("results", NoSearchRequest, id, <<CookieA>>,
                            pg[1], pg[2], resp, out)
            /\ sent' = sent + Count(out)
    /\ calls' = calls + 1
    /\ UNCHANGED <<client, handle, outside>>

NextRequests == ReqSubmit \/ ReqPoll \/ ReqFetch

SpecRequests == Init /\ [][NextRequests]_vars

(* The path `segments` names under the base endpoint: the directory of the *)
(* base path followed by the segments.                                     *)
Under(base, segments) ==
    (IF base.path = <<>> THEN <<>>
     ELSE SubSeq(base.path, 1, Len(base.path) - 1)) \o segments

(* The method and path of an operation, for the ID it was called with.     *)
OperationMethod(op) == IF op = "submit" THEN "POST" ELSE "GET"
OperationPath(op, id) ==
    CASE op = "submit"  -> <<"search", "jobs">>
      [] op = "status"  -> <<"search", "jobs", id>>
      [] op = "results" -> <<"search", "jobs", id, "messages">>

(* C21: every request sent by StartSearch, GetSearchJobStatus and          *)
(* GetSearchResults carries Authorization: Basic <the client's token> and  *)
(* a JSON content type, and goes to the host of the base endpoint with the *)
(* method and the path of its operation under the base endpoint: POST      *)
(* search/jobs, GET search/jobs/{id}, GET search/jobs/{id}/messages.       *)
C21_RequestTargetsItsOperation ==
    (last.op \in {"submit", "status", "results"} /\ last.out.sent)
        => /\ \E i \in 1..Len(last.out.req.header) :
                last.out.req.header[i]
                  = <<"Authorization", "Basic " \o client.AuthToken>>
           /\ \E i \in 1..Len(last.out.req.header) :
                last.out.req.header[i] = <<"Content-Type", "application/json">>
           /\ last.out.req.host = client.EndpointURL.host
           /\ last.out.req.method = OperationMethod(last.op)
           /\ last.out.req.path
                = Under(client.EndpointURL, OperationPath(last.op, last.id))

=============================================================================
